---- MODULE Spec2Model ----
(***************************************************************************)
(* Model of biosearch_scraper.ipynb: the five Entrez wrapper functions     *)
(* (cells 17-18) and the driver cells 11 and 19-22 that call them in       *)
(* notebook order.  The upstream (NCBI Entrez) is the environment: every   *)
(* request either fails or is answered with a response drawn from a small  *)
(* set of shapes, well-formed or not.                                      *)
(***************************************************************************)
EXTENDS Integers, Sequences, FiniteSets, TLC

VARIABLES
    pc,              \* the cell / call the kernel is at
    status,          \* "running", "failed" (a cell raised), "done"
    error,           \* the exception the failing cell reported, or NoError
    Entrez_email,    \* Bio.Entrez's process-wide email setting
    inflight,        \* requests issued and not yet answered
    requests,        \* requests issued in this run, in order of issue
    databases,       \* cell 19: value returned by available_dbs()
    df_main,         \* cell 19: first value returned by pubmed_info()
    search_args,     \* cell 20: <<key_words, date, max_results>> of the call
    record_search,   \* search_articles: <<Entrez.read(search)>> once read
    id_list,         \* cell 20: value returned by search_articles
    record_summary,  \* article_details: Entrez.read(summary)
    articles_info,   \* cell 21: value returned by article_details
    stdout,          \* what the driver cells printed, in order
    prev,            \* how the previous run of the notebook ended
    \* two invocations of the functions in one kernel, kept for comparison
    earlier,         \* <<>> or <<an invocation remembered from before>>
    latest,          \* <<>> or <<the invocation made last>>
    \* the combined-dataset example (Ent_2)
    join_pc,         \* "idle", "tables", "joined", "rejoined"
    table_a,         \* the Table of source A
    table_b,         \* the Table of source B
    joined,          \* table_a joined with table_b
    rejoined,        \* joined, joined with table_b again
    \* the batch launcher
    bat_pc,          \* the line the launcher is at, "idle" when not started
    bat_ran,         \* the steps executed so far, in order
    bat_failed,      \* the steps that ended with a non-zero exit status
    cwd,             \* the working directory
    venv_created,    \* venv\Scripts exists
    venv_active,     \* the virtual environment is activated
    console,         \* what the launcher echoed
    output_log       \* <<>> or <<the content written to output.log>>

notebookVars ==
    <<pc, status, error, Entrez_email, inflight, requests, databases, df_main,
      search_args, record_search, id_list, record_summary, articles_info,
      stdout, prev>>
callVars == <<earlier, latest>>
joinVars == <<join_pc, table_a, table_b, joined, rejoined>>
batVars ==
    <<bat_pc, bat_ran, bat_failed, cwd, venv_created, venv_active, console,
      output_log>>

vars == <<notebookVars, callVars, joinVars, batVars>>

\* nothing is being invoked for comparison
CallsIdle == earlier = <<>> /\ latest = <<>>

\* no Table is being joined
JoinIdle ==
    /\ join_pc = "idle"
    /\ table_a = <<>>
    /\ table_b = <<>>
    /\ joined = <<>>
    /\ rejoined = <<>>

\* the launcher has not been started
BatIdle ==
    /\ bat_pc = "idle"
    /\ bat_ran = <<>>
    /\ bat_failed = {}
    /\ cwd = "elsewhere"
    /\ venv_created = FALSE
    /\ venv_active = FALSE
    /\ console = <<>>
    /\ output_log = <<>>

-----------------------------------------------------------------------------
(* Bounds of the model.                                                    *)

\* longest IdList the upstream answers an esearch with
MaxIds == 2
\* most DocSums the upstream answers an esummary with
MaxDocs == 2
\* the explicit max_results argument tried beside the default
SmallLimit == 1
\* retries the retrying mutant of search_articles makes
MaxRetries == 1

-----------------------------------------------------------------------------
(* Program constants.                                                      *)

\* def search_articles(key_words, date, max_results=10)
DEFAULT_MAX_RESULTS == 10

EMAIL == "sanjuansanjuanp@gmail.com"
NO_DISPONIBLE == "No disponible"
LINK_PREFIX == "https://www.ncbi.nlm.nih.gov/pubmed/"

\* the keys article_details reads with article[...] (KeyError when absent)
RequiredKeys == {"Id", "Title", "AuthorList", "PubDate"}
\* the keys of every dictionary article_details appends
Schema == {"ID", "Title", "AuthorList", "PubDate", "DOI", "Link PubMed"}

NoError == "none"
\* a failed request: urllib raises out of Entrez.einfo/esearch/esummary/efetch
HTTPError == "HTTPError"
\* a subscript on a key the parsed response lacks
KeyError == "KeyError"

-----------------------------------------------------------------------------
(* Python helpers, computed as Python computes them.                       *)

\* d[k] is defined
HasKey(d, k) == k \in DOMAIN d

\* d without the key k
DropKey(d, k) == [x \in (DOMAIN d) \ {k} |-> d[x]]

\* ",".join(ids)
RECURSIVE CommaJoin(_)
CommaJoin(ids) ==
    IF ids = <<>> THEN ""
    ELSE IF Len(ids) = 1 THEN ids[1]
    ELSE ids[1] \o "," \o CommaJoin(Tail(ids))

\* the inside of str(list_of_str): 'a', 'b'
RECURSIVE ReprItems(_)
ReprItems(xs) ==
    IF xs = <<>> THEN ""
    ELSE IF Len(xs) = 1 THEN "'" \o xs[1] \o "'"
    ELSE "'" \o xs[1] \o "', " \o ReprItems(Tail(xs))

\* str(list_of_str), what an f-string renders a list as
PyStrList(xs) == "[" \o ReprItems(xs) \o "]"

\* f"{key_words}[Title/Abstract] AND {date}[PDAT]"
SearchTerm(key_words, date) ==
    PyStrList(key_words) \o "[Title/Abstract] AND " \o date \o "[PDAT]"

-----------------------------------------------------------------------------
(* The upstream: what Entrez.read may hand back for each request.          *)

IDS == {"38370347", "38303306"}

\* every sequence over S of length 0..n
SeqsUpTo(S, n) == UNION {[1..k -> S] : k \in 0..n}

\* Entrez.einfo(): a record with or without DbList
EinfoBodies == {[DbList |-> <<"pubmed", "protein">>], [ERROR |-> "no DbList"]}

DB_INFO == [DbName |-> "pubmed", MenuName |-> "PubMed",
            Description |-> "PubMed bibliographic record",
            DbBuild |-> "Build-2024.09.06.23.59", Count |-> "37708996",
            LastUpdate |-> "2024/09/06 23:59",
            FieldList |-> <<"ALL", "UID", "FILT", "TITL", "MESH">>]

\* Entrez.einfo(db="pubmed"): a record with or without DbInfo
PubmedInfoBodies == {[DbInfo |-> DB_INFO], [ERROR |-> "no DbInfo"]}

\* Entrez.esearch: a record with an IdList of any length the bound allows
\* (the upstream is not assumed to honour retmax), or without IdList
SearchBodies ==
    {[Count |-> "n", IdList |-> ids] : ids \in SeqsUpTo(IDS, MaxIds)}
        \cup {[Count |-> "n"]}

\* DocSums as the notebook's output shows them: year only, year and month
\* (this one without DOI, row 2 of cell 21), year month day
DOC_1 == [Id |-> "38370347", Title |-> "Neurotoxicity-sparing radiotherapy",
          AuthorList |-> <<"Buczek D", "Zaucha R", "Jassem J">>,
          PubDate |-> "2023", DOI |-> "10.3389/fonc.2023.1215426"]
DOC_2 == [Id |-> "38303306", Title |-> "Brain metastasis from breast cancer",
          AuthorList |-> <<"Hikino H", "Otani A">>,
          PubDate |-> "2023 Dec"]
DOC_3 == [Id |-> "38201564", Title |-> "Stereotactic Radiosurgery",
          AuthorList |-> <<"Upadhyay R">>,
          PubDate |-> "2023 Dec 27", DOI |-> "10.3390/cancers16010137"]

WellFormedDocSums == {DOC_1, DOC_2, DOC_3}
\* a DocSum lacking one of the keys article_details subscripts
MalformedDocSums == {DropKey(DOC_1, k) : k \in RequiredKeys}
DocSums == WellFormedDocSums \cup MalformedDocSums

\* Entrez.esummary: a list of DocSums, as many as the bound allows (the
\* upstream is not assumed to answer one DocSum per requested id)
SummaryBodies == SeqsUpTo(DocSums, MaxDocs)

\* Entrez.efetch(...).read()
AbstractTexts == {"1. Front Oncol. 2024 Feb 2;13:1215426."}

\* the arguments cell 20 may pass: max_results left to its default or given
KeyWordsArgs == {<<"cancer", "brain">>, <<"glioma">>}
DateArgs == {"2023"}
MaxResultsArgs == {DEFAULT_MAX_RESULTS, SmallLimit}

-----------------------------------------------------------------------------
(* Requests.                                                               *)

\* one call of Bio.Entrez; "" (-1 for retmax) stands for a keyword argument
\* not passed
Request(api, db, term, id, retmax, rettype, retmode) ==
    [api |-> api, db |-> db, term |-> term, id |-> id, retmax |-> retmax,
     rettype |-> rettype, retmode |-> retmode]

\* the call blocks: the request is issued and the kernel waits at `at`
Issue(req, at) ==
    /\ requests' = Append(requests, req)
    /\ inflight' = Append(inflight, req)
    /\ pc' = at

\* the answer arrived
Answered == inflight' = Tail(inflight)

\* an exception propagates out of the function and out of the cell: the
\* notebook stops at this cell (no try/except anywhere in the notebook)
Raise(e) ==
    /\ status' = "failed"
    /\ error' = e
    /\ pc' = pc

Running(at) == status = "running" /\ pc = at

-----------------------------------------------------------------------------
(* article_details, the part after Entrez.read.                            *)

\* article.get(k, default)
DictGet(d, k, default) == IF HasKey(d, k) THEN d[k] ELSE default

\* article[...] raises KeyError for this DocSum
SubscriptRaises(article) == ~(RequiredKeys \subseteq DOMAIN article)

\* the value article_details stores under key k for one DocSum
ArticleField(article, k) ==
    CASE k = "ID" -> article["Id"]
      [] k = "Title" -> article["Title"]
      [] k = "AuthorList" -> article["AuthorList"]
      [] k = "PubDate" -> article["PubDate"]
      [] k = "DOI" -> DictGet(article, "DOI", NO_DISPONIBLE)
      [] k = "Link PubMed" -> LINK_PREFIX \o article["Id"]

\* mutant: the DOI key is left out of the dictionary when the DocSum has none
article_info_no_default(article) ==
    [k \in (IF HasKey(article, "DOI") THEN Schema ELSE Schema \ {"DOI"}) |->
        ArticleField(article, k)]

\* mutant: DOI looked up under a key no DocSum has
article_info_wrong_doi_key(article) ==
    [k \in Schema |->
        IF k = "DOI" THEN DictGet(article, "doi", NO_DISPONIBLE)
        ELSE ArticleField(article, k)]

\* mutant: PubDate cut down to its year
article_info_year_only(article) ==
    [k \in Schema |->
        IF k = "PubDate" THEN SubSeq(article["PubDate"], 1, 4)
        ELSE ArticleField(article, k)]

\* mutant: only the first author kept
article_info_first_author(article) ==
    [k \in Schema |->
        IF k = "AuthorList" THEN SubSeq(article["AuthorList"], 1, 1)
        ELSE ArticleField(article, k)]

\* the dictionary built for one DocSum
article_info(article) == [k \in Schema |-> ArticleField(article, k)]

\* mutant: a DocSum lacking a key is skipped instead of raising
RECURSIVE ArticleLoop_skips(_, _)
ArticleLoop_skips(rest, acc) ==
    IF rest = <<>> THEN [raised |-> FALSE, value |-> acc]
    ELSE IF SubscriptRaises(Head(rest)) THEN ArticleLoop_skips(Tail(rest), acc)
    ELSE ArticleLoop_skips(Tail(rest), Append(acc, article_info(Head(rest))))

\* for article in record_summary: ... articles_info.append(article_info)
\* the first DocSum lacking a subscripted key raises out of the loop and the
\* dictionaries appended so far are lost with the local list
RECURSIVE ArticleLoop(_, _)
ArticleLoop(rest, acc) ==
    IF rest = <<>> THEN [raised |-> FALSE, value |-> acc]
    ELSE IF SubscriptRaises(Head(rest)) THEN [raised |-> TRUE, value |-> <<>>]
    ELSE ArticleLoop(Tail(rest), Append(acc, article_info(Head(rest))))

-----------------------------------------------------------------------------
(* The notebook, cell by cell.                                             *)

\* the kernel before cell 11
NotebookIdle ==
    /\ pc = "cell11"
    /\ status = "running"
    /\ error = NoError
    /\ Entrez_email = ""
    /\ inflight = <<>>
    /\ requests = <<>>
    /\ databases = <<>>
    /\ df_main = <<>>
    /\ search_args = <<>>
    /\ record_search = <<>>
    /\ id_list = <<>>
    /\ record_summary = <<>>
    /\ articles_info = <<>>
    /\ stdout = <<>>
    /\ prev = "none"

Init ==
    /\ NotebookIdle
    /\ CallsIdle
    /\ JoinIdle
    /\ BatIdle

\* mutant: cell 11 runs without assigning the email
SetEmail_forgotten ==
    /\ Running("cell11")
    /\ pc' = "cell19"
    /\ UNCHANGED <<status, error, Entrez_email, inflight, requests, databases,
                   df_main, search_args, record_search, id_list, record_summary,
                   articles_info, stdout, prev,
                   callVars, joinVars, batVars>>

\* cell 11: Entrez.email = "..."
SetEmail ==
    /\ Running("cell11")
    /\ Entrez_email' = EMAIL
    /\ pc' = "cell19"
    /\ UNCHANGED <<status, error, inflight, requests, databases, df_main,
                   search_args, record_search, id_list, record_summary,
                   articles_info, stdout, prev,
                   callVars, joinVars, batVars>>

\* cell 19, first half: print(...); available_dbs() up to Entrez.einfo()
available_dbs_call ==
    /\ Running("cell19")
    /\ stdout' = Append(stdout, "Available databases in Entrez:")
    /\ Issue(Request("einfo", "", "", "", -1, "", ""), "available_dbs")
    /\ UNCHANGED <<status, error, Entrez_email, databases, df_main, search_args,
                   record_search, id_list, record_summary, articles_info, prev,
                   callVars, joinVars, batVars>>

\* available_dbs() from the answer on, and the print of its value
available_dbs_return ==
    /\ Running("available_dbs")
    /\ Answered
    /\ \/ /\ Raise(HTTPError)
          /\ UNCHANGED <<databases, stdout>>
       \/ \E record_info \in EinfoBodies :
            IF HasKey(record_info, "DbList")
            THEN /\ databases' = record_info["DbList"]
                 /\ stdout' = stdout \o <<PyStrList(record_info["DbList"]),
                                           "--------------------">>
                 /\ pc' = "cell19_info"
                 /\ UNCHANGED <<status, error>>
            ELSE /\ Raise(KeyError)
                 /\ UNCHANGED <<databases, stdout>>
    /\ UNCHANGED <<Entrez_email, requests, df_main, search_args, record_search,
                   id_list, record_summary, articles_info, prev,
                   callVars, joinVars, batVars>>

\* cell 19, second half: pubmed_info() up to Entrez.einfo(db="pubmed")
pubmed_info_call ==
    /\ Running("cell19_info")
    /\ Issue(Request("einfo", "pubmed", "", "", -1, "", ""), "pubmed_info")
    /\ UNCHANGED <<status, error, Entrez_email, databases, df_main, search_args,
                   record_search, id_list, record_summary, articles_info,
                   stdout, prev,
                   callVars, joinVars, batVars>>

\* the six fields pubmed_info copies out of DbInfo
DfMain(db_info) ==
    [Dbname |-> db_info["DbName"], Menuname |-> db_info["MenuName"],
     Description |-> db_info["Description"], Dbbuild |-> db_info["DbBuild"],
     Count |-> db_info["Count"], Lastupdate |-> db_info["LastUpdate"]]

\* str(df_main), as print renders the dictionary
DfMainRepr(d) ==
    "{'Dbname': '" \o d["Dbname"] \o "', 'Menuname': '" \o d["Menuname"]
        \o "', 'Description': '" \o d["Description"]
        \o "', 'Dbbuild': '" \o d["Dbbuild"] \o "', 'Count': '" \o d["Count"]
        \o "', 'Lastupdate': '" \o d["Lastupdate"] \o "'}"

\* pubmed_info() from the answer on, and the prints of cell 19
pubmed_info_return ==
    /\ Running("pubmed_info")
    /\ Answered
    /\ \/ /\ Raise(HTTPError)
          /\ UNCHANGED <<df_main, stdout>>
       \/ \E record_info \in PubmedInfoBodies :
            IF HasKey(record_info, "DbInfo")
            THEN /\ df_main' = <<DfMain(record_info["DbInfo"])>>
                 /\ stdout' = stdout \o
                        <<"Main information in PubMed:\n "
                              \o DfMainRepr(DfMain(record_info["DbInfo"])),
                          "\ndatabase info:\n">>
                 /\ pc' = "cell20"
                 /\ UNCHANGED <<status, error>>
            ELSE /\ Raise(KeyError)
                 /\ UNCHANGED <<df_main, stdout>>
    /\ UNCHANGED <<Entrez_email, requests, databases, search_args,
                   record_search, id_list, record_summary, articles_info, prev,
                   callVars, joinVars, batVars>>

\* mutant: the IdList handed back in reverse
RECURSIVE search_articles_result_reversed(_)
search_articles_result_reversed(record) ==
    IF ~HasKey(record, "IdList") \/ record["IdList"] = <<>> THEN <<>>
    ELSE Append(search_articles_result_reversed(
                    [record EXCEPT !["IdList"] = Tail(@)]),
                Head(record["IdList"]))

\* return record_search["IdList"]
search_articles_result(record) == record["IdList"]

\* f"\nSearch for articles on '{key_words}' published from {date}:"
SearchHeader(key_words, date) ==
    "\nSearch for articles on '" \o PyStrList(key_words)
        \o "' published from " \o date \o ":"

\* mutant: retmax not passed
esearch_request_no_retmax(key_words, date, max_results) ==
    Request("esearch", "pubmed", SearchTerm(key_words, date), "", -1, "", "")

\* Entrez.esearch(db="pubmed", term=term, retmax=max_results)
esearch_request(key_words, date, max_results) ==
    Request("esearch", "pubmed", SearchTerm(key_words, date), "", max_results,
            "", "")

\* mutant: the search is started and cell 21 runs without waiting for it
search_articles_call_async ==
    /\ Running("cell20")
    /\ \E key_words \in KeyWordsArgs, date \in DateArgs,
          max_results \in MaxResultsArgs :
         /\ search_args' = <<key_words, date, max_results>>
         /\ Issue(esearch_request(key_words, date, max_results), "cell21")
         /\ stdout' = Append(stdout, SearchHeader(key_words, date))
    /\ UNCHANGED <<status, error, Entrez_email, databases, df_main,
                   record_search, id_list, record_summary, articles_info, prev,
                   callVars, joinVars, batVars>>

\* cell 20 up to Entrez.esearch(...) inside search_articles
search_articles_call ==
    /\ Running("cell20")
    /\ \E key_words \in KeyWordsArgs, date \in DateArgs,
          max_results \in MaxResultsArgs :
         /\ search_args' = <<key_words, date, max_results>>
         /\ Issue(esearch_request(key_words, date, max_results),
                  "search_articles")
         /\ stdout' = Append(stdout, SearchHeader(key_words, date))
    /\ UNCHANGED <<status, error, Entrez_email, databases, df_main,
                   record_search, id_list, record_summary, articles_info, prev,
                   callVars, joinVars, batVars>>

\* mutant: a failed search is tried again (up to MaxRetries times) by sending
\* the kernel back to the call
search_articles_return_retry ==
    /\ Running("search_articles")
    /\ Answered
    /\ \/ /\ IF Len(requests) < 3 + MaxRetries
             THEN pc' = "cell20" /\ UNCHANGED <<status, error>>
             ELSE Raise(HTTPError)
          /\ UNCHANGED <<record_search, id_list, stdout>>
       \/ \E record \in SearchBodies :
            /\ record_search' = <<record>>
            /\ IF HasKey(record, "IdList")
               THEN /\ id_list' = search_articles_result(record)
                    /\ stdout' = Append(stdout,
                           "IDs of the articles found:  "
                               \o PyStrList(search_articles_result(record)))
                    /\ pc' = "cell21"
                    /\ UNCHANGED <<status, error>>
               ELSE /\ Raise(KeyError)
                    /\ UNCHANGED <<id_list, stdout>>
    /\ UNCHANGED <<Entrez_email, requests, databases, df_main, search_args,
                   record_summary, articles_info, prev,
                   callVars, joinVars, batVars>>

\* search_articles from the answer on, and the print of cell 20
search_articles_return ==
    /\ Running("search_articles")
    /\ Answered
    /\ \/ /\ Raise(HTTPError)
          /\ UNCHANGED <<record_search, id_list, stdout>>
       \/ \E record \in SearchBodies :
            /\ record_search' = <<record>>
            /\ IF HasKey(record, "IdList")
               THEN /\ id_list' = search_articles_result(record)
                    /\ stdout' = Append(stdout,
                           "IDs of the articles found:  "
                               \o PyStrList(search_articles_result(record)))
                    /\ pc' = "cell21"
                    /\ UNCHANGED <<status, error>>
               ELSE /\ Raise(KeyError)
                    /\ UNCHANGED <<id_list, stdout>>
    /\ UNCHANGED <<Entrez_email, requests, databases, df_main, search_args,
                   record_summary, articles_info, prev,
                   callVars, joinVars, batVars>>

\* mutant: only the first ID is asked for
esummary_request_first_id(ids) ==
    Request("esummary", "pubmed", "", IF ids = <<>> THEN "" ELSE ids[1], -1,
            "", "")

\* Entrez.esummary(db="pubmed", id=",".join(id_list))
esummary_request(ids) ==
    Request("esummary", "pubmed", "", CommaJoin(ids), -1, "", "")

\* cell 21 up to Entrez.esummary(...) inside article_details
article_details_call ==
    /\ Running("cell21")
    /\ Issue(esummary_request(id_list), "article_details")
    /\ UNCHANGED <<status, error, Entrez_email, databases, df_main, search_args,
                   record_search, id_list, record_summary, articles_info,
                   stdout, prev,
                   callVars, joinVars, batVars>>

\* mutant: the rows are appended to the notebook's list articles_info, not
\* to a list created by the call
article_details_result_global(record) == ArticleLoop(record, articles_info)

\* what article_details does with the parsed summary
article_details_result(record) == ArticleLoop(record, <<>>)

\* article_details from the answer on, and the print of cell 21
article_details_return ==
    /\ Running("article_details")
    /\ Answered
    /\ \/ /\ Raise(HTTPError)
          /\ UNCHANGED <<record_summary, articles_info, stdout>>
       \/ \E record \in SummaryBodies :
            /\ record_summary' = record
            /\ LET result == article_details_result(record) IN
                 IF result.raised
                 THEN /\ Raise(KeyError)
                      /\ UNCHANGED <<articles_info, stdout>>
                 ELSE /\ articles_info' = result.value
                      /\ stdout' = Append(stdout, "\nArticles detailed information:")
                      /\ pc' = "cell22"
                      /\ UNCHANGED <<status, error>>
    /\ UNCHANGED <<Entrez_email, requests, databases, df_main, search_args,
                   record_search, id_list, prev,
                   callVars, joinVars, batVars>>

\* cell 22, else branch
no_articles_found ==
    /\ Running("cell22")
    /\ id_list = <<>>
    /\ stdout' = Append(stdout, "\nNo articles found.")
    /\ status' = "done"
    /\ pc' = "end"
    /\ UNCHANGED <<error, Entrez_email, inflight, requests, databases, df_main,
                   search_args, record_search, id_list, record_summary,
                   articles_info, prev,
                   callVars, joinVars, batVars>>

\* Entrez.efetch(db="pubmed", id=article_id, rettype="abstract", retmode="text")
efetch_request(article_id) ==
    Request("efetch", "pubmed", "", article_id, -1, "abstract", "text")

\* cell 22, if branch, up to Entrez.efetch(...) inside article_abstract
article_abstract_call ==
    /\ Running("cell22")
    /\ id_list # <<>>
    /\ LET article_id == id_list[1] IN
         Issue(efetch_request(article_id), "article_abstract")
    /\ stdout' = Append(stdout, "\nFirst article found summary:")
    /\ UNCHANGED <<status, error, Entrez_email, databases, df_main, search_args,
                   record_search, id_list, record_summary, articles_info, prev,
                   callVars, joinVars, batVars>>

\* article_abstract from the answer on
article_abstract_return ==
    /\ Running("article_abstract")
    /\ Answered
    /\ \/ /\ Raise(HTTPError)
          /\ UNCHANGED stdout
       \/ \E abstract \in AbstractTexts :
            /\ stdout' = Append(stdout, abstract)
            /\ status' = "done"
            /\ pc' = "end"
            /\ UNCHANGED error
    /\ UNCHANGED <<Entrez_email, requests, databases, df_main, search_args,
                   record_search, id_list, record_summary, articles_info, prev,
                   callVars, joinVars, batVars>>

\* Kernel > Restart & Run All, after a run that ended either way: a fresh
\* kernel, nothing kept but the history variable prev
RestartAndRunAll ==
    /\ status \in {"failed", "done"}
    /\ prev' = status
    /\ pc' = "cell11"
    /\ status' = "running"
    /\ error' = NoError
    /\ Entrez_email' = ""
    /\ inflight' = <<>>
    /\ requests' = <<>>
    /\ databases' = <<>>
    /\ df_main' = <<>>
    /\ search_args' = <<>>
    /\ record_search' = <<>>
    /\ id_list' = <<>>
    /\ record_summary' = <<>>
    /\ articles_info' = <<>>
    /\ stdout' = <<>>
    /\ UNCHANGED <<callVars, joinVars, batVars>>

Next ==
    \/ SetEmail
    \/ available_dbs_call
    \/ available_dbs_return
    \/ pubmed_info_call
    \/ pubmed_info_return
    \/ search_articles_call
    \/ search_articles_return
    \/ article_details_call
    \/ article_details_return
    \/ no_articles_found
    \/ article_abstract_call
    \/ article_abstract_return
    \/ RestartAndRunAll

Spec == Init /\ [][Next]_vars

-----------------------------------------------------------------------------
(* Vocabulary of the properties.                                           *)

\* search_articles returned its value to cell 20
SearchReturned ==
    pc \in {"cell21", "article_details", "cell22", "article_abstract", "end"}

\* search_articles got as far as Entrez.read(search)
SearchRead == record_search # <<>>

\* article_details returned its list to cell 21: the Table exists
DetailsReturned == pc \in {"cell22", "article_abstract", "end"}

\* article_details got as far as Entrez.read(summary): it returned, or its
\* loop raised
SummaryRead ==
    \/ DetailsReturned
    \/ pc = "article_details" /\ status = "failed" /\ error = KeyError

\* article_details raised to cell 21
DetailsRaised == pc = "article_details" /\ status = "failed"

Rows == 1..Len(articles_info)
DocSumsRead == 1..Len(record_summary)

\* the DocSums of the summary that lack a required key
MalformedAt == {i \in DocSumsRead : ~(RequiredKeys \subseteq DOMAIN record_summary[i])}

\* number of space-separated parts of a date string: 1 + number of spaces
RECURSIVE DateParts(_)
DateParts(s) ==
    IF Len(s) = 0 THEN 1
    ELSE (IF SubSeq(s, 1, 1) = " " THEN 1 ELSE 0) + DateParts(SubSeq(s, 2, Len(s)))

\* a date in year month day form
IsYearMonthDay(s) == DateParts(s) = 3

-----------------------------------------------------------------------------
(* C1 *)

\* C1 as stated: every summary response that was read, with N DocSums, ends
\* in a returned Table of N rows, each with exactly the six declared keys.
C1_Original ==
    SummaryRead =>
        /\ DetailsReturned
        /\ Len(articles_info) = Len(record_summary)
        /\ \A i \in Rows : DOMAIN articles_info[i] = Schema

\* C1 amended: when every DocSum of the summary carries the four subscripted
\* keys, article_details returns, the Table has one row per DocSum, and every
\* row has exactly the six declared keys; it returns in no other case.
C1_TableShape ==
    SummaryRead =>
        /\ DetailsReturned <=> MalformedAt = {}
        /\ DetailsReturned =>
             /\ Len(articles_info) = Len(record_summary)
             /\ \A i \in Rows : DOMAIN articles_info[i] = Schema

\* a Table of two rows, one of them built from a DocSum without DOI
C1_Witness ==
    /\ DetailsReturned
    /\ Len(articles_info) = 2
    /\ \E i \in DocSumsRead : ~HasKey(record_summary[i], "DOI")

-----------------------------------------------------------------------------
(* C2 *)

\* C2 as stated: a DocSum without DOI yields a record whose DOI is the
\* string "not available"; with DOI, the upstream value.
C2_Original ==
    DetailsReturned =>
        \A i \in Rows :
            articles_info[i]["DOI"] =
                IF HasKey(record_summary[i], "DOI")
                THEN record_summary[i]["DOI"] ELSE "not available"

\* C2 amended: the sentinel is the string "No disponible".  A summary whose
\* DocSums all carry the four subscripted keys never makes article_details
\* raise, with or without DOI, and row i carries the upstream DOI when
\* DocSum i has one and "No disponible" when it has none.
C2_DoiSentinel ==
    /\ (SummaryRead /\ MalformedAt = {}) => DetailsReturned
    /\ DetailsReturned =>
         \A i \in Rows :
             articles_info[i]["DOI"] =
                 IF HasKey(record_summary[i], "DOI")
                 THEN record_summary[i]["DOI"] ELSE "No disponible"

\* a Table with a row from a DocSum without DOI and a row from one with DOI
C2_Witness ==
    /\ DetailsReturned
    /\ \E i, j \in DocSumsRead :
         /\ ~HasKey(record_summary[i], "DOI")
         /\ HasKey(record_summary[j], "DOI")
         /\ articles_info[i]["DOI"] = "No disponible"

-----------------------------------------------------------------------------
(* C3 *)

\* C3 as stated: when the summary holds several DocSums and exactly one is
\* malformed, article_details does not raise out of the batch and the
\* records of the well-formed DocSums are returned.
C3_PerItemError ==
    (SummaryRead /\ Len(record_summary) >= 2 /\ Cardinality(MalformedAt) = 1) =>
        /\ DetailsReturned
        /\ \A i \in DocSumsRead \ MalformedAt :
             \E r \in Rows : articles_info[r]["ID"] = record_summary[i]["Id"]

-----------------------------------------------------------------------------
(* C4 *)

\* C4: a search result without IdList, or a summary with a DocSum lacking
\* Id, Title, AuthorList or PubDate, ends in the exception KeyError (the
\* code's parse error) raised to the calling cell, which stops the run
\* there; nothing is returned, so no record lacks the key or carries a
\* sentinel in its place.
C4_MissingRequiredRaises ==
    /\ (SearchRead /\ ~HasKey(record_search[1], "IdList")) =>
         /\ status = "failed" /\ error = KeyError /\ pc = "search_articles"
         /\ ~SearchReturned /\ id_list = <<>>
    /\ (SummaryRead /\ MalformedAt # {}) =>
         /\ status = "failed" /\ error = KeyError /\ pc = "article_details"
         /\ ~DetailsReturned /\ articles_info = <<>>

\* article_details raised on the second DocSum after building the first
C4_Witness ==
    /\ DetailsRaised
    /\ error = KeyError
    /\ Len(record_summary) = 2
    /\ MalformedAt = {2}

-----------------------------------------------------------------------------
(* C5 *)

\* the max_results of the search_articles call of this run
Limit == search_args[3]

\* C5 as stated: whatever the upstream answers, the returned ID list has at
\* most max_results entries and the Table at most max_results rows.
C5_Original ==
    /\ SearchReturned => Len(id_list) <= Limit
    /\ DetailsReturned => Len(articles_info) <= Limit

\* C5 amended: search_articles passes max_results to the upstream as retmax
\* and returns the IdList it is answered, entry for entry, and
\* article_details returns one row per DocSum it is answered; so the list has
\* at most max_results entries exactly when the upstream's IdList has, and the
\* Table at most max_results rows exactly when the summary has at most
\* max_results DocSums.  Neither function cuts a longer answer down.
C5_LimitIsUpstream ==
    /\ Len(requests) >= 3 =>
         /\ requests[3].api = "esearch"
         /\ requests[3].retmax = Limit
    /\ SearchReturned =>
         /\ Len(id_list) = Len(record_search[1]["IdList"])
         /\ Len(id_list) <= Limit <=> Len(record_search[1]["IdList"]) <= Limit
    /\ DetailsReturned =>
         /\ Len(articles_info) = Len(record_summary)
         /\ Len(articles_info) <= Limit <=> Len(record_summary) <= Limit

\* a search limited to SmallLimit results whose answers respect the limit,
\* carried through to a non-empty Table
C5_Witness ==
    /\ DetailsReturned
    /\ Limit = SmallLimit
    /\ Len(id_list) = SmallLimit
    /\ Len(articles_info) = SmallLimit

-----------------------------------------------------------------------------
(* C6 *)

\* C6: the ID list is the upstream IdList in the upstream's order, and row i
\* of the Table is built from DocSum i of the summary.
C6_SourceOrder ==
    /\ SearchReturned =>
         /\ Len(id_list) = Len(record_search[1]["IdList"])
         /\ \A i \in 1..Len(id_list) : id_list[i] = record_search[1]["IdList"][i]
    /\ DetailsReturned =>
         /\ Len(articles_info) = Len(record_summary)
         /\ \A i \in Rows :
              /\ articles_info[i]["ID"] = record_summary[i]["Id"]
              /\ articles_info[i]["Link PubMed"] =
                     "https://www.ncbi.nlm.nih.gov/pubmed/" \o record_summary[i]["Id"]

\* two different IDs found and two different DocSums tabulated
C6_Witness ==
    /\ DetailsReturned
    /\ Len(id_list) = 2 /\ id_list[1] # id_list[2]
    /\ Len(articles_info) = 2
    /\ articles_info[1]["ID"] # articles_info[2]["ID"]

-----------------------------------------------------------------------------
(* C7 *)

\* no request of this run was issued twice
NoRequestTwice ==
    \A i, j \in 1..Len(requests) : requests[i] = requests[j] => i = j

\* C7: a run issues no request twice; the step on which a request fails
\* issues nothing and reports an exception to the cell; once a run has
\* failed it issues no further request, and the only step left is the start
\* of a new run, which begins with no request issued.
C7_NoRetry ==
    /\ [](NoRequestTwice /\ (status = "failed" <=> error # NoError))
    /\ [][/\ (status = "running" /\ status' = "failed") =>
               (requests' = requests /\ inflight' = <<>>)
          /\ status = "failed" =>
               \/ requests' = requests /\ status' = "failed"
               \/ /\ requests' = <<>> /\ inflight' = <<>>
                  /\ status' = "running" /\ pc' = "cell11"]_vars

\* a run that completed after the run before it had failed
C7_Witness ==
    /\ prev = "failed"
    /\ status = "done"
    /\ Len(requests) = 5

-----------------------------------------------------------------------------
(* C8 *)

\* the requests of a notebook run, in order: <<api, db>>
RunOrder ==
    << <<"einfo", "">>, <<"einfo", "pubmed">>, <<"esearch", "pubmed">>,
       <<"esummary", "pubmed">>, <<"efetch", "pubmed">> >>

\* C8: at most one request is outstanding; a request is issued only when none
\* is outstanding; the requests of a run are a prefix of einfo,
\* einfo(db=pubmed), esearch, esummary, efetch; esummary is issued with the
\* IDs search_articles returned, and efetch after article_details returned.
C8_Sequential ==
    /\ [](/\ Len(inflight) <= 1
          /\ Len(requests) <= Len(RunOrder)
          /\ \A i \in 1..Len(requests) :
               <<requests[i].api, requests[i].db>> = RunOrder[i]
          /\ Len(requests) >= 4 =>
               (SearchReturned /\ requests[4].id = CommaJoin(id_list))
          /\ Len(requests) >= 5 => (DetailsReturned /\ SearchReturned))
    /\ [][Len(requests') > Len(requests) =>
            (inflight = <<>> /\ Len(requests') = Len(requests) + 1)]_vars

\* a complete run: all five requests issued and answered
C8_Witness ==
    /\ status = "done"
    /\ Len(requests) = 5
    /\ inflight = <<>>

-----------------------------------------------------------------------------
(* C9 *)

\* C9 as stated: every PubDate of the Table is in year month day form, so
\* all rows carry dates of the same shape.
C9_Original ==
    DetailsReturned =>
        \A i \in Rows : IsYearMonthDay(articles_info[i]["PubDate"])

\* C9 amended: the PubDate of each record is the upstream PubDate string
\* unchanged, whatever its form (year only, year and month, or year month
\* day); the rows of one Table may carry dates of different shapes.
C9_PubDateUnchanged ==
    DetailsReturned =>
        \A i \in Rows :
            articles_info[i]["PubDate"] = record_summary[i]["PubDate"]

\* a Table whose two rows carry a year-only date and a year month day date
C9_Witness ==
    /\ DetailsReturned
    /\ \E i, j \in Rows :
         /\ DateParts(articles_info[i]["PubDate"]) = 1
         /\ DateParts(articles_info[j]["PubDate"]) = 3

-----------------------------------------------------------------------------
(* C10 *)

\* C10: ID, Title and AuthorList of row i equal Id, Title and AuthorList of
\* DocSum i, the author list with the same authors in the same order.
C10_IdentityFields ==
    DetailsReturned =>
        \A i \in Rows :
            /\ articles_info[i]["ID"] = record_summary[i]["Id"]
            /\ articles_info[i]["Title"] = record_summary[i]["Title"]
            /\ Len(articles_info[i]["AuthorList"]) =
                   Len(record_summary[i]["AuthorList"])
            /\ \A a \in 1..Len(record_summary[i]["AuthorList"]) :
                   articles_info[i]["AuthorList"][a] =
                       record_summary[i]["AuthorList"][a]

\* a row built from a DocSum with three authors
C10_Witness ==
    /\ DetailsReturned
    /\ \E i \in Rows : Len(articles_info[i]["AuthorList"]) = 3

-----------------------------------------------------------------------------
(* C11 *)

\* C11: in every run the email is assigned before the first request is
\* issued, every request is issued with the email set, and the email changes
\* only in cell 11 (or with the kernel restart that starts a new run), never
\* in a step of the pipeline functions.
C11_EmailFirst ==
    /\ [](requests # <<>> => Entrez_email = EMAIL)
    /\ [][/\ Len(requests') > Len(requests) =>
               (Entrez_email = EMAIL /\ Entrez_email' = EMAIL)
          /\ Entrez_email' # Entrez_email =>
               (pc = "cell11" \/ pc' = "cell11")]_vars

\* the first request of a run is out and the email is set
C11_Witness ==
    /\ Len(requests) = 1
    /\ inflight # <<>>
    /\ Entrez_email = "sanjuansanjuanp@gmail.com"

-----------------------------------------------------------------------------
(* C15 *)

\* the run stopped: its last cell finished or a cell raised
RunEnded == status \in {"done", "failed"}

\* the efetch requests issued in this run
EfetchRequests == {i \in 1..Len(requests) : requests[i].api = "efetch"}

\* the last line printed
LastPrinted == IF stdout = <<>> THEN "" ELSE stdout[Len(stdout)]

\* C15: a run whose search returned an empty ID list ends by printing
\* "No articles found." and issues no efetch; a run whose search returned a
\* non-empty list and whose cell 21 returned issues exactly one efetch, for
\* the first ID of the list, and when it is answered prints its text last.
C15_Cell22 ==
    (RunEnded /\ SearchReturned) =>
        IF id_list = <<>>
        THEN /\ status = "done"
             /\ LastPrinted = "\nNo articles found."
             /\ EfetchRequests = {}
        ELSE DetailsReturned =>
               /\ Cardinality(EfetchRequests) = 1
               /\ \A i \in EfetchRequests : requests[i].id = id_list[1]
               /\ status = "done" => LastPrinted \in AbstractTexts

-----------------------------------------------------------------------------
(* C16 *)

\* sub occurs in s
Contains(s, sub) ==
    \E i \in 1..(Len(s) - Len(sub) + 1) : SubSeq(s, i, i + Len(sub) - 1) = sub

\* C16: the search request of a run is an esearch on pubmed with retmax equal
\* to max_results whose term tags every keyword with [Title/Abstract] and the
\* date with [PDAT]; it is the only esearch of the run, and the value
\* returned is the answer's IdList.
C16_SearchRequest ==
    /\ Len(requests) >= 3 =>
         /\ requests[3].api = "esearch"
         /\ requests[3].db = "pubmed"
         /\ requests[3].retmax = search_args[3]
         /\ \A k \in 1..Len(search_args[1]) :
              Contains(requests[3].term, search_args[1][k] \o "[Title/Abstract]")
         /\ Contains(requests[3].term, search_args[2] \o "[PDAT]")
         /\ Cardinality({i \in 1..Len(requests) : requests[i].api = "esearch"}) = 1
    /\ SearchReturned => id_list = record_search[1]["IdList"]

-----------------------------------------------------------------------------
(* C17 *)

\* ids joined with commas, built from the left
RECURSIVE JoinedUpTo(_, _)
JoinedUpTo(ids, n) ==
    IF n = 0 THEN ""
    ELSE IF n = 1 THEN ids[1]
    ELSE JoinedUpTo(ids, n - 1) \o "," \o ids[n]

\* the summary answers one DocSum per requested ID, in request order
AnswersRequest ==
    /\ Len(record_summary) = Len(id_list)
    /\ \A i \in DocSumsRead :
         HasKey(record_summary[i], "Id") /\ record_summary[i]["Id"] = id_list[i]

\* C17: a run issues exactly one esummary, whatever the length of id_list,
\* carrying all its IDs comma-joined in order; ID and link of row i come from
\* the Id of DocSum i; when the summary answers one DocSum per requested ID
\* in order, the IDs of the Table are id_list, without repetition when
\* id_list has none.
C17_OneSummary ==
    /\ Len(requests) >= 4 =>
         /\ requests[4].api = "esummary"
         /\ requests[4].id = JoinedUpTo(id_list, Len(id_list))
         /\ Cardinality({i \in 1..Len(requests) : requests[i].api = "esummary"}) = 1
    /\ DetailsReturned =>
         /\ \A i \in Rows :
              /\ articles_info[i]["ID"] = record_summary[i]["Id"]
              /\ articles_info[i]["Link PubMed"] =
                     "https://www.ncbi.nlm.nih.gov/pubmed/" \o record_summary[i]["Id"]
         /\ AnswersRequest =>
              /\ Len(articles_info) = Len(id_list)
              /\ \A i \in Rows : articles_info[i]["ID"] = id_list[i]
              /\ (\A i, j \in 1..Len(id_list) : id_list[i] = id_list[j] => i = j) =>
                   (\A i, j \in Rows :
                        articles_info[i]["ID"] = articles_info[j]["ID"] => i = j)

\* two different IDs requested in one esummary and answered in order
C17_Witness ==
    /\ DetailsReturned
    /\ Len(id_list) = 2 /\ id_list[1] # id_list[2]
    /\ AnswersRequest
    /\ requests[4].id = "38370347,38303306"

-----------------------------------------------------------------------------
(* The functions invoked again and again in one kernel: cells 19-22 re-run  *)
(* in any order after cells 11-20 ran once.  Each step is one invocation,   *)
(* from call to return; two of them are kept for comparison.                *)

\* what one invocation was given and what it did: answer is <<>> for a failed
\* request and <<body>> otherwise; raised is the exception or NoError
Invocation(fn, args, request, answer, raised, value, printed) ==
    [fn |-> fn, args |-> args, request |-> request, answer |-> answer,
     raised |-> raised, value |-> value, printed |-> printed]

\* available_dbs(), as a function of the upstream's answer
available_dbs_invoked(answer) ==
    LET request == Request("einfo", "", "", "", -1, "", "") IN
    IF answer = <<>>
    THEN Invocation("available_dbs", <<>>, request, answer, HTTPError, <<>>, <<>>)
    ELSE IF ~HasKey(answer[1], "DbList")
    THEN Invocation("available_dbs", <<>>, request, answer, KeyError, <<>>, <<>>)
    ELSE Invocation("available_dbs", <<>>, request, answer, NoError,
                    answer[1]["DbList"], <<>>)

\* pubmed_info(), as a function of the upstream's answer
pubmed_info_invoked(answer) ==
    LET request == Request("einfo", "pubmed", "", "", -1, "", "") IN
    IF answer = <<>>
    THEN Invocation("pubmed_info", <<>>, request, answer, HTTPError, <<>>, <<>>)
    ELSE IF ~HasKey(answer[1], "DbInfo")
    THEN Invocation("pubmed_info", <<>>, request, answer, KeyError, <<>>, <<>>)
    ELSE Invocation("pubmed_info", <<>>, request, answer, NoError,
                    <<DfMain(answer[1]["DbInfo"])>>, <<>>)

\* search_articles(key_words, date, max_results), as a function of its
\* arguments and the upstream's answer
search_articles_invoked(key_words, date, max_results, answer) ==
    LET args == <<key_words, date, max_results>>
        request == esearch_request(key_words, date, max_results) IN
    IF answer = <<>>
    THEN Invocation("search_articles", args, request, answer, HTTPError, <<>>, <<>>)
    ELSE IF ~HasKey(answer[1], "IdList")
    THEN Invocation("search_articles", args, request, answer, KeyError, <<>>, <<>>)
    ELSE Invocation("search_articles", args, request, answer, NoError,
                    search_articles_result(answer[1]), <<>>)

\* article_details(ids), as a function of its argument and the answer
article_details_invoked(ids, answer) ==
    LET request == esummary_request(ids) IN
    IF answer = <<>>
    THEN Invocation("article_details", <<ids>>, request, answer, HTTPError,
                    <<>>, <<>>)
    ELSE LET result == article_details_result(answer[1]) IN
         IF result.raised
         THEN Invocation("article_details", <<ids>>, request, answer, KeyError,
                         <<>>, <<>>)
         ELSE Invocation("article_details", <<ids>>, request, answer, NoError,
                         result.value, <<>>)

\* article_abstract(article_id), as a function of its argument and the answer
article_abstract_invoked(article_id, answer) ==
    LET request == efetch_request(article_id) IN
    IF answer = <<>>
    THEN Invocation("article_abstract", <<article_id>>, request, answer,
                    HTTPError, <<>>, <<>>)
    ELSE Invocation("article_abstract", <<article_id>>, request, answer,
                    NoError, <<>>, <<answer[1]>>)

\* the answers tried in this specification: a failed request or a body
Failed == <<>>
CallIdLists == {<<>>, <<"38370347">>, <<"38370347", "38303306">>}
CallSearchAnswers ==
    {Failed} \cup {<<[Count |-> "n", IdList |-> ids]>> : ids \in CallIdLists}
        \cup {<<[Count |-> "n"]>>}
CallSummaryAnswers ==
    {Failed, << <<>> >>, << <<DOC_1>> >>, << <<DOC_2>> >>, << <<DOC_1, DOC_2>> >>,
     << <<DropKey(DOC_1, "Title")>> >>}
CallAbstractAnswers == {Failed} \cup {<<t>> : t \in AbstractTexts}
CallEinfoAnswers == {Failed} \cup {<<b>> : b \in EinfoBodies}
CallPubmedInfoAnswers == {Failed} \cup {<<b>> : b \in PubmedInfoBodies}

\* the invocation is the latest; the first one remembered stays remembered,
\* with a note of whether another invocation came between it and the latest
Remember(inv) ==
    /\ latest' = <<inv>>
    /\ IF earlier = <<>>
       THEN earlier' \in {<<>>, <<[inv |-> inv, fresh |-> TRUE, between |-> FALSE]>>}
       ELSE earlier' = <<[inv |-> earlier[1].inv, fresh |-> FALSE,
                          between |-> earlier[1].between \/ ~earlier[1].fresh]>>

\* what the notebook run's bookkeeping and the other examples keep
KernelFrame ==
    UNCHANGED <<pc, status, error, Entrez_email, inflight, requests, databases,
                search_args, record_search, record_summary, stdout, prev,
                joinVars, batVars>>

\* the kernel after cells 11-20 ran: email set, id_list assigned
InitCalls ==
    /\ pc = "kernel"
    /\ status = "running"
    /\ error = NoError
    /\ Entrez_email = EMAIL
    /\ inflight = <<>>
    /\ requests = <<>>
    /\ databases = <<>>
    /\ df_main = <<>>
    /\ search_args = <<>>
    /\ record_search = <<>>
    /\ id_list \in CallIdLists
    /\ record_summary = <<>>
    /\ articles_info = <<>>
    /\ stdout = <<>>
    /\ prev = "none"
    /\ CallsIdle
    /\ JoinIdle
    /\ BatIdle

\* print(available_dbs()) of cell 19
invoke_available_dbs ==
    /\ \E answer \in CallEinfoAnswers : Remember(available_dbs_invoked(answer))
    /\ UNCHANGED <<df_main, id_list, articles_info>>
    /\ KernelFrame

\* df_main, df_field_list = pubmed_info() of cell 19
invoke_pubmed_info ==
    /\ \E answer \in CallPubmedInfoAnswers :
         LET inv == pubmed_info_invoked(answer) IN
           /\ Remember(inv)
           /\ df_main' = IF inv.raised = NoError THEN inv.value ELSE df_main
    /\ UNCHANGED <<id_list, articles_info>>
    /\ KernelFrame

\* id_list = search_articles(key_words, date[, max_results]) of cell 20
invoke_search_articles ==
    /\ \E date \in DateArgs, max_results \in MaxResultsArgs,
          answer \in CallSearchAnswers :
         LET inv == search_articles_invoked(<<"cancer", "brain">>, date,
                                            max_results, answer) IN
           /\ Remember(inv)
           /\ id_list' = IF inv.raised = NoError THEN inv.value ELSE id_list
    /\ UNCHANGED <<df_main, articles_info>>
    /\ KernelFrame

\* articles_info = article_details(id_list) of cell 21
invoke_article_details ==
    /\ \E answer \in CallSummaryAnswers :
         LET inv == article_details_invoked(id_list, answer) IN
           /\ Remember(inv)
           /\ articles_info' =
                  IF inv.raised = NoError THEN inv.value ELSE articles_info
    /\ UNCHANGED <<df_main, id_list>>
    /\ KernelFrame

\* article_abstract(id_list[0]) of cell 22
invoke_article_abstract ==
    /\ id_list # <<>>
    /\ \E answer \in CallAbstractAnswers :
         Remember(article_abstract_invoked(id_list[1], answer))
    /\ UNCHANGED <<df_main, id_list, articles_info>>
    /\ KernelFrame

NextCalls ==
    \/ invoke_available_dbs
    \/ invoke_pubmed_info
    \/ invoke_search_articles
    \/ invoke_article_details
    \/ invoke_article_abstract

SpecCalls == InitCalls /\ [][NextCalls]_vars

-----------------------------------------------------------------------------
(* C12 *)

\* the remembered invocation and the latest one are of the same function,
\* with equal arguments and equal answers
SameCall ==
    /\ earlier # <<>>
    /\ latest # <<>>
    /\ earlier[1].inv.fn = latest[1].fn
    /\ earlier[1].inv.args = latest[1].args
    /\ earlier[1].inv.answer = latest[1].answer

\* C12: two invocations of the same function with equal arguments and equal
\* upstream answers issue the same request and end the same way (same
\* exception or same returned value, same text printed), whatever was invoked
\* in between; and an invocation of article_details leaves id_list as it was.
C12_Stateless ==
    /\ [](SameCall =>
            /\ earlier[1].inv.request = latest[1].request
            /\ earlier[1].inv.raised = latest[1].raised
            /\ earlier[1].inv.value = latest[1].value
            /\ earlier[1].inv.printed = latest[1].printed)
    /\ [][(latest' # <<>> /\ latest'[1].fn = "article_details") =>
              id_list' = id_list]_vars

\* article_details invoked twice with the same IDs and the same two-DocSum
\* answer, with other invocations in between
C12_Witness ==
    /\ SameCall
    /\ earlier[1].between
    /\ latest[1].fn = "article_details"
    /\ Len(latest[1].value) = 2

-----------------------------------------------------------------------------
(* The combined-dataset example (Ent_2): two Tables joined on a key field. *)
(* A Table is a sequence of rows, a row a function from column names to    *)
(* values.                                                                 *)

\* most rows of a Table drawn for the join
MaxRows == 2

DATES == {"2023-01", "2023-02"}
\* the twelve months of the monthly statistics
MONTHS ==
    <<"2023-01", "2023-02", "2023-03", "2023-04", "2023-05", "2023-06",
      "2023-07", "2023-08", "2023-09", "2023-10", "2023-11", "2023-12">>

\* rows of source A (INE) and of source B (EU)
RowsA == {[date |-> d, ine |-> v] : d \in DATES, v \in {"1.5", "2.5"}}
RowsB == {[date |-> d, eu |-> v] : d \in DATES, v \in {"7.0", "8.0"}}

\* the monthly Tables of the two sources over the same twelve months
MONTHLY_A == [i \in 1..Len(MONTHS) |-> [date |-> MONTHS[i], ine |-> "1.5"]]
MONTHLY_B == [i \in 1..Len(MONTHS) |-> [date |-> MONTHS[i], eu |-> "7.0"]]

\* the name a column of the right side gets in the joined row: its own,
\* suffixed when the left side has a column of that name
RightName(a, c) == IF c \in DOMAIN a THEN c \o "_y" ELSE c

\* the joined row of a matching pair: the columns of both sides
MergeRow(a, b, key) ==
    LET right == (DOMAIN b) \ {key} IN
    [c \in (DOMAIN a) \cup {RightName(a, r) : r \in right} |->
        IF c \in DOMAIN a THEN a[c]
        ELSE b[CHOOSE r \in right : RightName(a, r) = c]]

\* mutant: every row of the right side paired, the keys not compared
RECURSIVE MatchesOf_unkeyed(_, _, _)
MatchesOf_unkeyed(a, B, key) ==
    IF B = <<>> THEN <<>>
    ELSE <<MergeRow(a, Head(B), key)>> \o MatchesOf_unkeyed(a, Tail(B), key)

\* the joined rows of one left row: one per right row with an equal key
RECURSIVE MatchesOf(_, _, _)
MatchesOf(a, B, key) ==
    IF B = <<>> THEN <<>>
    ELSE (IF a[key] = Head(B)[key] THEN <<MergeRow(a, Head(B), key)>> ELSE <<>>)
             \o MatchesOf(a, Tail(B), key)

\* mutant: a left row is joined only with the first right row that matches
RECURSIVE Join_first_match(_, _, _)
Join_first_match(A, B, key) ==
    IF A = <<>> THEN <<>>
    ELSE LET matches == MatchesOf(Head(A), B, key) IN
         (IF matches = <<>> THEN <<>> ELSE <<Head(matches)>>)
             \o Join_first_match(Tail(A), B, key)

\* the inner equality join of A and B on key: no row without a match, one
\* row per matching pair, no deduplication
RECURSIVE Join(_, _, _)
Join(A, B, key) ==
    IF A = <<>> THEN <<>>
    ELSE MatchesOf(Head(A), B, key) \o Join(Tail(A), B, key)

InitJoin ==
    /\ NotebookIdle
    /\ CallsIdle
    /\ BatIdle
    /\ join_pc = "tables"
    /\ \/ /\ table_a \in SeqsUpTo(RowsA, MaxRows)
          /\ table_b \in SeqsUpTo(RowsB, MaxRows)
       \/ /\ table_a = MONTHLY_A
          /\ table_b = MONTHLY_B
    /\ joined = <<>>
    /\ rejoined = <<>>

\* the two Tables joined on date
JoinTables ==
    /\ join_pc = "tables"
    /\ joined' = Join(table_a, table_b, "date")
    /\ join_pc' = "joined"
    /\ UNCHANGED <<table_a, table_b, rejoined, notebookVars, callVars, batVars>>

\* the result joined with the right Table again
RejoinTable ==
    /\ join_pc = "joined"
    /\ rejoined' = Join(joined, table_b, "date")
    /\ join_pc' = "rejoined"
    /\ UNCHANGED <<table_a, table_b, joined, notebookVars, callVars, batVars>>

NextJoin ==
    \/ JoinTables
    \/ RejoinTable

SpecJoin == InitJoin /\ [][NextJoin]_vars

-----------------------------------------------------------------------------
(* C13 *)

\* the key values of a Table
KeysOf(T) == {T[i]["date"] : i \in 1..Len(T)}

\* no two rows of the Table have the same key
UniqueKeys(T) == \A i, j \in 1..Len(T) : T[i]["date"] = T[j]["date"] => i = j

HasJoined == join_pc \in {"joined", "rejoined"}

\* C13: the key values of the join are exactly those both Tables have; every
\* joined row carries the columns of both sides, with the values of a row of
\* each side that has its key; and the two twelve-month Tables join to
\* twelve rows, one per month.
C13_InnerJoin ==
    HasJoined =>
        /\ KeysOf(joined) = KeysOf(table_a) \cap KeysOf(table_b)
        /\ \A r \in 1..Len(joined) :
             /\ DOMAIN joined[r] = {"date", "ine", "eu"}
             /\ \E i \in 1..Len(table_a) :
                  /\ table_a[i]["date"] = joined[r]["date"]
                  /\ table_a[i]["ine"] = joined[r]["ine"]
             /\ \E j \in 1..Len(table_b) :
                  /\ table_b[j]["date"] = joined[r]["date"]
                  /\ table_b[j]["eu"] = joined[r]["eu"]
        /\ (table_a = MONTHLY_A /\ table_b = MONTHLY_B) =>
             /\ Len(joined) = 12
             /\ \A m \in 1..12 : joined[m]["date"] = MONTHS[m]

\* the two twelve-month Tables joined to twelve rows
C13_Witness ==
    /\ HasJoined
    /\ Len(table_a) = 12
    /\ Len(table_b) = 12
    /\ Len(joined) = 12

-----------------------------------------------------------------------------
(* C14 *)

\* the pairs of rows of S and T with equal keys
MatchingPairs(S, T) ==
    {p \in (1..Len(S)) \X (1..Len(T)) : S[p[1]]["date"] = T[p[2]]["date"]}

\* C14: when the keys of the right Table are unique, joining the result with
\* it again yields as many rows with the same keys in the same order; with
\* or without duplicates, each join has exactly one row per matching pair.
C14_Rejoin ==
    /\ HasJoined =>
         Len(joined) = Cardinality(MatchingPairs(table_a, table_b))
    /\ join_pc = "rejoined" =>
         /\ Len(rejoined) = Cardinality(MatchingPairs(joined, table_b))
         /\ UniqueKeys(table_b) =>
              /\ Len(rejoined) = Len(joined)
              /\ \A r \in 1..Len(joined) :
                   rejoined[r]["date"] = joined[r]["date"]

\* a join of two rows re-joined with a right Table of unique keys
C14_Witness ==
    /\ join_pc = "rejoined"
    /\ UniqueKeys(table_b)
    /\ Len(joined) = 2
    /\ Len(rejoined) = 2

-----------------------------------------------------------------------------
(* The batch launcher of ent_2_local.py: one action per command line. The  *)
(* exit status of a command is recorded in bat_failed; no line reads it.   *)

EXECUTING_MSG == "Executing command: python ent_2_local.py"
COMPLETED_MSG ==
    "Script execution completed. Please check output.log for any errors."
PAUSE_MSG == "Press any key to continue . . ."

\* what the redirected run of the script can leave in output.log: its
\* output, its traceback, or the shell's message when python is not found
SCRIPT_OUTPUT == "joined dataset"
SCRIPT_TRACEBACK == "Traceback (most recent call last):"
PYTHON_NOT_FOUND == "'python' is not recognized as an internal or external command"
LogContents == {SCRIPT_OUTPUT, SCRIPT_TRACEBACK, PYTHON_NOT_FOUND}

\* a command line has run with exit status ok; the interpreter goes on to
\* the line next whatever the status
BatStep(step, ok, next) ==
    /\ bat_ran' = Append(bat_ran, step)
    /\ bat_failed' = IF ok THEN bat_failed ELSE bat_failed \cup {step}
    /\ bat_pc' = next

\* the launcher started from any directory, with or without a venv left by
\* an earlier run
InitBat ==
    /\ NotebookIdle
    /\ CallsIdle
    /\ JoinIdle
    /\ bat_pc = "line3"
    /\ bat_ran = <<>>
    /\ bat_failed = {}
    /\ cwd \in {"elsewhere", "script_dir"}
    /\ venv_created \in BOOLEAN
    /\ venv_active = FALSE
    /\ console = <<>>
    /\ output_log = <<>>

\* cd /d "%~dp0"
bat_cd ==
    /\ bat_pc = "line3"
    /\ \E ok \in BOOLEAN :
         /\ cwd' = IF ok THEN "script_dir" ELSE cwd
         /\ BatStep("cd", ok, "line5")
    /\ UNCHANGED <<venv_created, venv_active, console, output_log,
                   notebookVars, callVars, joinVars>>

\* python -m venv venv
bat_venv ==
    /\ bat_pc = "line5"
    /\ \E ok \in BOOLEAN :
         /\ venv_created' = (venv_created \/ ok)
         /\ BatStep("venv", ok, "line6")
    /\ UNCHANGED <<cwd, venv_active, console, output_log,
                   notebookVars, callVars, joinVars>>

\* call venv\Scripts\activate.bat
bat_activate ==
    /\ bat_pc = "line6"
    /\ venv_active' = venv_created
    /\ BatStep("activate", venv_created, "line8")
    /\ UNCHANGED <<cwd, venv_created, console, output_log,
                   notebookVars, callVars, joinVars>>

\* mutant: the launcher ends when pip fails (|| exit /b)
bat_pip_checked ==
    /\ bat_pc = "line8"
    /\ \E ok \in BOOLEAN :
         BatStep("pip", ok, IF ok THEN "line10" ELSE "done")
    /\ UNCHANGED <<cwd, venv_created, venv_active, console, output_log,
                   notebookVars, callVars, joinVars>>

\* pip install -r requirements.txt
bat_pip ==
    /\ bat_pc = "line8"
    /\ \E ok \in BOOLEAN : BatStep("pip", ok, "line10")
    /\ UNCHANGED <<cwd, venv_created, venv_active, console, output_log,
                   notebookVars, callVars, joinVars>>

\* echo Executing command: python ent_2_local.py
bat_echo_command ==
    /\ bat_pc = "line10"
    /\ console' = Append(console, EXECUTING_MSG)
    /\ BatStep("echo_command", TRUE, "line11")
    /\ UNCHANGED <<cwd, venv_created, venv_active, output_log,
                   notebookVars, callVars, joinVars>>

\* python ent_2_local.py > output.log 2>&1
bat_python ==
    /\ bat_pc = "line11"
    /\ \E content \in LogContents :
         /\ output_log' = <<content>>
         /\ BatStep("python", content = SCRIPT_OUTPUT, "line13")
    /\ UNCHANGED <<cwd, venv_created, venv_active, console,
                   notebookVars, callVars, joinVars>>

\* echo Script execution completed. Please check output.log for any errors.
bat_echo_completed ==
    /\ bat_pc = "line13"
    /\ console' = Append(console, COMPLETED_MSG)
    /\ BatStep("echo_completed", TRUE, "line14")
    /\ UNCHANGED <<cwd, venv_created, venv_active, output_log,
                   notebookVars, callVars, joinVars>>

\* pause, and the key pressed
bat_pause ==
    /\ bat_pc = "line14"
    /\ console' = Append(console, PAUSE_MSG)
    /\ BatStep("pause", TRUE, "done")
    /\ UNCHANGED <<cwd, venv_created, venv_active, output_log,
                   notebookVars, callVars, joinVars>>

NextBat ==
    \/ bat_cd
    \/ bat_venv
    \/ bat_activate
    \/ bat_pip
    \/ bat_echo_command
    \/ bat_python
    \/ bat_echo_completed
    \/ bat_pause

SpecBat == InitBat /\ [][NextBat]_vars

-----------------------------------------------------------------------------
(* C18 *)

\* the steps in the order the claim gives them, and the position of the
\* launcher before each and after the last
StepOrder ==
    <<"cd", "venv", "activate", "pip", "echo_command", "python",
      "echo_completed", "pause">>
Positions ==
    <<"line3", "line5", "line6", "line8", "line10", "line11", "line13",
      "line14", "done">>

Displayed(msg) == \E i \in 1..Len(console) : console[i] = msg

\* C18: wherever the launcher is, the steps run so far are exactly the steps
\* before that position in the fixed order, whatever failed; once the
\* script's line is passed output.log is written, and an execution that has
\* ended has run every step and displayed the completion message.
C18_FixedOrder ==
    /\ \E k \in 1..Len(Positions) :
         /\ bat_pc = Positions[k]
         /\ bat_ran = SubSeq(StepOrder, 1, k - 1)
    /\ bat_failed \subseteq {bat_ran[i] : i \in 1..Len(bat_ran)}
    /\ (\E i \in 1..Len(bat_ran) : bat_ran[i] = "python") <=> output_log # <<>>
    /\ bat_pc = "done" =>
         /\ bat_ran = StepOrder
         /\ output_log # <<>>
         /\ Displayed(COMPLETED_MSG)

\* an execution that ended after the install step and the script both failed
C18_Witness ==
    /\ bat_pc = "done"
    /\ {"pip", "python"} \subseteq bat_failed
    /\ output_log = <<SCRIPT_TRACEBACK>>
    /\ Displayed(COMPLETED_MSG)

====
